---------------------------- MODULE Spec2Model ----------------------------
(***************************************************************************)
(* Model of nancealoid (src/tract.c, the variant with target impedance,   *)
(* rigidity, damping, pressure and phoneme presets): a vocal tract as a   *)
(* one-dimensional double-buffered digital waveguide, driven by a JACK    *)
(* process callback that first applies the block's MIDI events and then   *)
(* runs the tract once per input sample.                                   *)
(*                                                                         *)
(* Numbers.  The program computes in IEEE doubles and floats.  The model  *)
(* computes in decimal fixed point: a real x is the integer closest to    *)
(* x * Scale, impedances (which reach 1/MIN_AREA = 10^6) are the integer  *)
(* closest to z * ZScale.  Every product and quotient is rounded to the   *)
(* nearest integer, ties away from zero, so that rounding is symmetric in *)
(* the sign as it is in IEEE arithmetic.  NaN and the two infinities are  *)
(* three reserved integers beyond the finite range, and every operation   *)
(* treats them as IEEE does (0/0 = NaN, x/0 = Inf, NaN compares false).   *)
(***************************************************************************)
EXTENDS Integers, Sequences, FiniteSets, TLC

-----------------------------------------------------------------------------
(* Number representation *)

Scale == 1000000
ZScale == 1000
MaxFinite == 2000000000
PInf == 2100000000
NInf == -2100000000
NaN == 2140000000

IsNaN(x) == x = NaN
IsInf(x) == x = PInf \/ x = NInf
IsFinite(x) == x >= -MaxFinite /\ x <= MaxFinite

Abs(x) == IF x < 0 THEN -x ELSE x
Sgn(x) == IF x < 0 THEN -1 ELSE IF x > 0 THEN 1 ELSE 0
SignedInf(s) == IF s < 0 THEN NInf ELSE PInf

\* a finite result, or the infinity of its sign when it leaves the finite range
Saturate(s, m) == IF m > MaxFinite THEN SignedInf(s) ELSE s * m

\* the member of a one-element set: Only({e(v) : v \in {d}}) is e(d) with d
\* evaluated once
Only(S) == CHOOSE v \in S : TRUE

Negated(a) == IF IsNaN(a) THEN NaN ELSE -a

Sum(a, b) ==
    IF IsNaN(a) \/ IsNaN(b) THEN NaN
    ELSE IF IsInf(a) THEN (IF IsInf(b) /\ a # b THEN NaN ELSE a)
    ELSE IF IsInf(b) THEN b
    ELSE IF a >= 0 /\ b >= 0 THEN (IF a > MaxFinite - b THEN PInf ELSE a + b)
    ELSE IF a < 0 /\ b < 0 THEN (IF a < (-MaxFinite) - b THEN NInf ELSE a + b)
    ELSE a + b

\* the operations on expressions: each operand is evaluated once
FNeg(a) == Only({Negated(x) : x \in {a}})
FAdd(a, b) == Only({Sum(x, y) : x \in {a}, y \in {b}})
FSub(a, b) == Only({Sum(x, Negated(y)) : x \in {a}, y \in {b}})

\* comparisons: false as soon as one side is NaN
FLt(a, b) == \E x \in {a}, y \in {b} : ~IsNaN(x) /\ ~IsNaN(y) /\ x < y

\* <<q, m>> is the pair for r * (b \div 2): the pair for r * b
MulDivBit(q, m, r, b, c) ==
    LET c1 == IF m >= c - m THEN 1 ELSE 0
        m2 == IF m >= c - m THEN m - (c - m) ELSE m + m
        c2 == IF b % 2 = 1 /\ m2 >= c - r THEN 1 ELSE 0
        m3 == IF b % 2 = 0 THEN m2 ELSE IF m2 >= c - r THEN m2 - (c - r) ELSE m2 + r
    IN <<IF q > MaxFinite \div 2 THEN MaxFinite + 1 ELSE 2 * q + c1 + c2, m3>>

\* <<quotient, remainder>> of r * b divided by c, for 0 <= r < c and b >= 0,
\* by doubling, so that no intermediate value exceeds 2 * c; the quotient is
\* capped just above MaxFinite
RECURSIVE MulDivBits(_, _, _)
MulDivBits(r, b, c) ==
    IF b = 0 \/ r = 0 THEN <<0, 0>>
    ELSE Only({MulDivBit(h[1], h[2], r, b, c) : h \in {MulDivBits(r, b \div 2, c)}})

\* the same pair for c <= 10^6, by the three base-1000 digits of b: no
\* intermediate value exceeds 2 * 10^9
MulDivLimbs(r, b, c) ==
    LET t2 == r * (b \div 1000000)
        t1 == (t2 % c) * 1000 + r * ((b \div 1000) % 1000)
        t0 == (t1 % c) * 1000 + r * (b % 1000)
    IN <<((t2 \div c) * 1000 + (t1 \div c)) * 1000 + (t0 \div c), t0 % c>>

\* the magnitude of a * b / c rounded to the nearest integer (ties up), for
\* a, b >= 0 and c > 0; MaxFinite + 1 when it exceeds MaxFinite
MulDivMag(a, b, c) ==
    IF a = 0 \/ b = 0 THEN 0
    ELSE IF b <= MaxFinite \div a
         THEN (a * b) \div c + (IF (a * b) % c >= c - ((a * b) % c) THEN 1 ELSE 0)
         ELSE Only({IF a \div c > 0 /\ b > MaxFinite \div (a \div c) THEN MaxFinite + 1
                    ELSE IF h[1] > MaxFinite THEN MaxFinite + 1
                    ELSE IF (a \div c) * b > MaxFinite - h[1] THEN MaxFinite + 1
                    ELSE (a \div c) * b + h[1] + (IF h[2] >= c - h[2] THEN 1 ELSE 0) :
                    h \in {IF c <= 1000000 THEN MulDivLimbs(a % c, b, c)
                           ELSE MulDivBits(a % c, b, c)}})

\* x * y of two values, y a real at scale k
Times(x, y, k) ==
    IF IsNaN(x) \/ IsNaN(y) THEN NaN
    ELSE IF IsInf(x) \/ IsInf(y)
         THEN (IF x = 0 \/ y = 0 THEN NaN ELSE SignedInf(Sgn(x) * Sgn(y)))
    ELSE Saturate(Sgn(x) * Sgn(y), MulDivMag(Abs(x), Abs(y), k))

\* x / y of two values, y a real at scale k
Over(x, y, k) ==
    IF IsNaN(x) \/ IsNaN(y) THEN NaN
    ELSE IF IsInf(x) THEN (IF IsInf(y) THEN NaN
                           ELSE SignedInf(Sgn(x) * (IF y < 0 THEN -1 ELSE 1)))
    ELSE IF IsInf(y) THEN 0
    ELSE IF y = 0 THEN (IF x = 0 THEN NaN ELSE SignedInf(Sgn(x)))
    ELSE Saturate(Sgn(x) * Sgn(y), MulDivMag(Abs(x), k, Abs(y)))

\* the operations on expressions: each operand is evaluated once
Prod(x, y, k) == Only({Times(a, b, k) : a \in {x}, b \in {y}})
Quot(x, y, k) == Only({Over(a, b, k) : a \in {x}, b \in {y}})

\* (int)x for a real x >= 0 at scale k
TruncInt(x, k) == x \div k

-----------------------------------------------------------------------------
(* Program constants (src/tract.c, second program of the file) *)

SPEED_OF_SOUND == 34300
TRACT_LENGTH == (35 * Scale) \div 2
NEUTRAL_Z == 1 * ZScale
THROAT_Z == 5 * ZScale
DRAIN_Z == ZScale \div 10
MIN_AREA == Scale \div 1000000

CONTROLLER_TONGUE_POSITION == 21
CONTROLLER_TONGUE_HEIGHT == 22
CONTROLLER_LIPS_ROUNDEDNESS == 23
CONTROLLER_TRACT_LENGTH == 24
CONTROLLER_DRAG == 25
CONTROLLER_PRESSURE == 26
CONTROLLER_DAMPING == 27

CONTROLLER_TRACT_LENGTH_MIN == 8 * Scale
CONTROLLER_TRACT_LENGTH_MAX == 24 * Scale

TONGUE_BACK == (2 * Scale) \div 10
TONGUE_FRONT == (9 * Scale) \div 10

DEFAULT_INTERPOLATION_DRAG == (4 * Scale) \div 10000
DRAG_MIN == Scale \div 1000
DRAG_MAX == Scale \div 10000

MIN_DIAPHRAM_PRESSURE == -((2 * Scale) \div 10)
MAX_DIAPHRAM_PRESSURE == (2 * Scale) \div 10

DEFAULT_DAMPING == (4 * Scale) \div 100
MIN_DAMPING == 0 * Scale
MAX_DAMPING == (2 * Scale) \div 10

FRICATION == Scale \div 10
PHYSICAL_DAMPING == 1 * Scale
LIPS_RIGIDITY == 1 * Scale

PHONEME_CHANNEL == 9

\* status bytes of the MIDI events the callback tells apart
CONTROL_CHANGE == 176
NOTE_OFF == 128
NOTE_ON == 144

Phoneme(h, p, l) == [tongue_height |-> h, tongue_position |-> p, lips_roundedness |-> l]

\* the preset catalogue as the program starts it
PresetNames ==
    {"PHONEME_A", "PHONEME_I", "PHONEME_U", "PHONEME_E", "PHONEME_O", "PHONEME_SCHWA",
     "PHONEME_UH", "PHONEME_AH", "PHONEME_UE", "PHONEME_II", "PHONEME_OE"}

Tenths(n) == (n * Scale) \div 10
Hundredths(n) == (n * Scale) \div 100

InitialPresets ==
    [name \in PresetNames |->
        CASE name = "PHONEME_A" -> Phoneme(Tenths(9), 0, 0)
          [] name = "PHONEME_I" -> Phoneme(Tenths(9), Scale, 0)
          [] name = "PHONEME_U" -> Phoneme(0, 0, Tenths(9))
          [] name = "PHONEME_E" -> Phoneme(Tenths(9), Tenths(5), 0)
          [] name = "PHONEME_O" -> Phoneme(Tenths(9), Hundredths(25), Tenths(9))
          [] name = "PHONEME_SCHWA" -> Phoneme(0, 0, 0)
          [] name = "PHONEME_UH" -> Phoneme(Tenths(7), 0, Tenths(6))
          [] name = "PHONEME_AH" -> Phoneme(Tenths(7), 0, 0)
          [] name = "PHONEME_UE" -> Phoneme(Tenths(9), Scale, Tenths(9))
          [] name = "PHONEME_II" -> Phoneme(Tenths(9), Hundredths(75), 0)
          [] name = "PHONEME_OE" -> Phoneme(0, 0, Hundredths(75))]

\* the object a note number selects: a preset, or the ambient phoneme itself
get_mapped_phoneme(note) ==
    CASE note = 36 -> "PHONEME_A"
      [] note = 37 -> "PHONEME_I"
      [] note = 38 -> "PHONEME_U"
      [] note = 39 -> "PHONEME_E"
      [] note = 40 -> "PHONEME_O"
      [] note = 41 -> "PHONEME_SCHWA"
      [] note = 42 -> "PHONEME_UH"
      [] note = 43 -> "PHONEME_AH"
      [] note = 44 -> "PHONEME_UE"
      [] note = 45 -> "PHONEME_II"
      [] note = 46 -> "PHONEME_OE"
      [] OTHER -> "ambient_phoneme"

-----------------------------------------------------------------------------
(* Pure functions of the program *)

\* cos(x * M_PI / 2) by Bhaskara's rational formula on the reduced argument:
\* 1 at 0, 0 at 1, -1 at 2, even and of period 4
CosQuarter(u) ==
    Only({Quot(Scale - u2, Scale + u2 \div 4, Scale) : u2 \in {Prod(u, u, Scale)}})

CosOfValue(x) ==
    IF IsNaN(x) \/ IsInf(x) THEN NaN
    ELSE LET a == Abs(x) % (4 * Scale)
         IN IF a <= Scale THEN CosQuarter(a)
            ELSE IF a <= 3 * Scale THEN -CosQuarter(Abs(2 * Scale - a))
            ELSE CosQuarter(4 * Scale - a)

CosHalfPi(x) == Only({CosOfValue(v) : v \in {x}})

\* the difference divided by the target impedance alone
reflection_over_target(source_z, target_z) ==
    Quot(FSub(target_z, source_z), target_z, Scale)

reflection(source_z, target_z) ==
    Quot(FSub(target_z, source_z), FAdd(target_z, source_z), Scale)

\* the level divided by 128
map2range_by_128(value, min, max) ==
    FAdd(min, Prod(FSub(max, min), Quot(value, 128, Scale), Scale))

map2range(value, min, max) ==
    FAdd(min, Prod(FSub(max, min), Quot(value, 127, Scale), Scale))

Min(a, b) == IF a < b THEN a ELSE b

-----------------------------------------------------------------------------
(* Bounds of the model *)

\* events and input samples delivered over a whole run
MaxEvents == 2
MaxFrames == 2

\* the same for a run that is all samples but for two events
MaxRunEvents == 2
MaxRunFrames == 5

\* sample rates jack_get_sample_rate reports
Rates == {8000}

\* data bytes of the control events that are delivered: MIDI levels, and
\* bytes with the high bit set as a raw buffer can hold them
Levels == {0, 127}
LengthLevels == {0, 32, 127}
RawLevels == {255}
Notes == {38, 48}

\* glottal source samples, and values of noise(): a step draws one value and
\* every call of noise() in that step returns it
Sources == {0, Scale}
NoiseVals == {-Scale, Scale}

\* addresses malloc hands out; NULL is none of them
Addr == 1..4
NULL == 0

-----------------------------------------------------------------------------
(* State *)

VARIABLES
    rate, unit_length, tract_length, nsegments,
    desired_length,         \* argument of the last init_tract
    heap,                   \* address -> [live, segs]: the arrays of Segment
    failedAllocs,           \* calls of init_tract whose malloc returned NULL
    buffer1, buffer2, segments_front, segments_back,
    PHONEMES,               \* the preset objects PHONEME_A .. PHONEME_OE
    ambient_phoneme, current_phoneme,
    target_phoneme,         \* name of the object the pointer refers to
    interpolation_drag, diaphram_pressure, damping,
    pc,                     \* "idle", or the loop process() is in
    events, evIdx,          \* the block's MIDI events and the event loop's i
    inBuf, outBuf, frameIdx,\* the block's audio buffers and the sample loop's i
    stepLog,                \* run_tract calls of the block: <<source, drain>>
    blockAmbient,           \* ambient_phoneme as the block found it
    usedEvents, usedFrames  \* events and samples delivered so far

tractVars == <<rate, unit_length, tract_length, nsegments, desired_length,
               heap, failedAllocs, buffer1, buffer2, segments_front, segments_back>>
phonemeVars == <<PHONEMES, ambient_phoneme, current_phoneme, target_phoneme>>
paramVars == <<interpolation_drag, diaphram_pressure, damping>>
blockVars == <<pc, events, evIdx, inBuf, outBuf, frameIdx, stepLog, blockAmbient,
               usedEvents, usedFrames>>
vars == <<tractVars, phonemeVars, paramVars, blockVars>>

Segment(z, tz, r, l, rt) == [z |-> z, target_z |-> tz, rigidity |-> r, left |-> l, right |-> rt]

FreeBlock == [live |-> FALSE, segs |-> <<>>]

\* the value an output sample holds before the callback writes it
Unwritten == 2145000000

-----------------------------------------------------------------------------
(* update_shape *)

TongueStart(n) == TruncInt(TONGUE_BACK * n, Scale)
TongueStop(n) == TruncInt(TONGUE_FRONT * n, Scale)

ThroatZ == THROAT_Z

LipsZ(cur) ==
    Prod(Quot(ZScale, FAdd(FSub(Scale, cur.lips_roundedness), MIN_AREA), Scale),
         NEUTRAL_Z, ZScale)

UnitPos(i, n) == Quot(i - TongueStart(n), (TongueStop(n) - TongueStart(n)) - 1, Scale)

TongueZ(i, n, cur) ==
    LET unit_pos == UnitPos(i, n)
        phase == FSub(unit_pos, cur.tongue_position)
        value == Prod(CosHalfPi(phase), cur.tongue_height, Scale)
        unit_area == FSub(Scale, value)
    IN Prod(Quot(ZScale, FAdd(unit_area, MIN_AREA), Scale), NEUTRAL_Z, ZScale)

\* the segment of index i (from 0) after update_shape
ShapeSegment(s, i, n, cur, set_z) ==
    Only({[s EXCEPT !.target_z = tz,
                    !.rigidity = IF i >= TongueStart(n) /\ i >= TongueStop(n)
                                 THEN LIPS_RIGIDITY ELSE @,
                    !.z = IF set_z THEN tz ELSE @] :
          tz \in {IF i < TongueStart(n) THEN ThroatZ
                  ELSE IF i >= TongueStop(n) THEN LipsZ(cur)
                  ELSE TongueZ(i, n, cur)}})

\* update_shape that stores the impedance whatever set_z is
update_shape_snapping(segs, n, cur, set_z) ==
    [k \in 1..n |-> ShapeSegment(segs[k], k - 1, n, cur, TRUE)]

\* update_shape(set_z) on the array segs of n segments
update_shape(segs, n, cur, set_z) ==
    [k \in 1..n |-> ShapeSegment(segs[k], k - 1, n, cur, set_z)]

-----------------------------------------------------------------------------
(* init_tract, resize_tract *)

UnitLength(r) == Quot(SPEED_OF_SOUND, r, Scale)
\* the quotient rounded to the nearest integer
SegmentCountRounded(desired, r) ==
    TruncInt(desired + UnitLength(r) \div 2, UnitLength(r))

SegmentCount(desired, r) == TruncInt(desired, UnitLength(r))
ActualLength(desired, r) == SegmentCount(desired, r) * UnitLength(r)

NeutralSegment == Segment(NEUTRAL_Z, NEUTRAL_Z, 1 * Scale, 0, 0)

\* malloc: the lowest address that is not live, other than those in taken
Malloc(h, taken) == CHOOSE a \in Addr : /\ ~h[a].live
                                        /\ a \notin taken
                                        /\ \A b \in Addr : (~h[b].live /\ b \notin taken) => a <= b

\* the memory after init_tract: both arrays allocated and initialised, the
\* front one shaped with set_z
InitTractMem(h, n, cur) ==
    Only({[heap |-> [h EXCEPT ![a1] = [live |-> TRUE,
                                       segs |-> update_shape(fresh, n, cur, TRUE)],
                              ![Malloc(h, {a1})] = [live |-> TRUE, segs |-> fresh]],
           buffer1 |-> a1, buffer2 |-> Malloc(h, {a1})] :
          a1 \in {Malloc(h, {})}, fresh \in {[k \in 1..n |-> NeutralSegment]}})

\* the indices (from 0) the loops address in an array of n segments:
\* update_shape and the loops of init_tract and run_tract run i over 0..n-1,
\* the second loop of run_tract also addresses i - 1 when i > 0 and i + 1
\* when i < n - 1, the copy loop of resize_tract runs over 0..min-1
LoopIndices(n) == 0..(n - 1)

StepIndices(n) ==
    UNION {{i} \cup (IF i = 0 THEN {} ELSE {i - 1})
               \cup (IF i = n - 1 THEN {} ELSE {i + 1}) : i \in LoopIndices(n)}

CopyIndices(old_n, n) == 0..((IF old_n < n THEN old_n ELSE n) - 1)

\* the copy loop of resize_tract: left and right of the first cnt segments
CopyWaves(new, old, cnt) ==
    [k \in 1..Len(new) |->
        IF k <= cnt THEN [new[k] EXCEPT !.left = old[k].left, !.right = old[k].right]
        ELSE new[k]]

\* resize_tract without its two calls of free
ResizeMemKeepsOld(h, old1, old2, old_n, n, cur) ==
    Only({[heap |-> [m.heap EXCEPT
                        ![m.buffer1].segs = CopyWaves(@, m.heap[old1].segs, Min(old_n, n)),
                        ![m.buffer2].segs = CopyWaves(@, m.heap[old2].segs, Min(old_n, n))],
           buffer1 |-> m.buffer1, buffer2 |-> m.buffer2] :
          m \in {InitTractMem(h, n, cur)}})

ResizeMem(h, old1, old2, old_n, n, cur) ==
    Only({[heap |-> [m.heap EXCEPT
                        ![m.buffer1].segs = CopyWaves(@, m.heap[old1].segs, Min(old_n, n)),
                        ![m.buffer2].segs = CopyWaves(@, m.heap[old2].segs, Min(old_n, n)),
                        ![old1] = FreeBlock,
                        ![old2] = FreeBlock],
           buffer1 |-> m.buffer1, buffer2 |-> m.buffer2] :
          m \in {InitTractMem(h, n, cur)}})

-----------------------------------------------------------------------------
(* run_tract *)

\* 1 / z as an area, 1 / area as an impedance
AreaOf(z) == Quot(Scale, z, ZScale)
ImpedanceOf(area) == Quot(ZScale, area, Scale)

\* the guard before 1 / area is taken
FloorArea(area) == Only({IF FLt(a, 0) THEN MIN_AREA ELSE a : a \in {area}})

\* 1 / old->z moved toward 1 / target_z
DeformedArea(old_area, target_area) ==
    FAdd(old_area, Prod(FSub(target_area, old_area), PHYSICAL_DAMPING, Scale))

\* the first loop without its two assignments of 0 to the waves
CarryOverKeepsWaves(old, new) ==
    [new EXCEPT !.target_z = old.target_z, !.rigidity = old.rigidity,
                !.z = Only({ImpedanceOf(FloorArea(DeformedArea(old_area, AreaOf(old.target_z)))) :
                            old_area \in {AreaOf(old.z)}})]

\* first loop: the segment written to the back buffer for the front segment old
CarryOver(old, new) ==
    [new EXCEPT !.target_z = old.target_z, !.rigidity = old.rigidity,
                !.left = 0, !.right = 0,
                !.z = Only({ImpedanceOf(FloorArea(DeformedArea(old_area, AreaOf(old.target_z)))) :
                            old_area \in {AreaOf(old.z)}})]

CarryOverPass(front, back, n) == [k \in 1..n |-> CarryOver(front[k], back[k])]

OneMinus(x) == FSub(Scale, x)
Velocity(refl) == IF FLt(refl, 0) THEN 0 ELSE refl
Frication(refl, nz) == Prod(Prod(FRICATION, Velocity(refl), Scale), nz, Scale)
Compression(refl, old) == Prod(refl, OneMinus(old.rigidity), Scale)

\* the source mixed in as it is, not normalised for the drain impedance
GlottisRightUnmatched(old, glottal_source, damp, press) ==
    FAdd(FAdd(Prod(old.left, OneMinus(damp), Scale), glottal_source), press)

\* the wave entering segment 0 from the glottis
GlottisRight(old, glottal_source, damp, press) ==
    LET gamma == OneMinus(reflection(DRAIN_Z, old.z))
    IN FAdd(FAdd(Prod(old.left, OneMinus(damp), Scale), Prod(glottal_source, gamma, Scale)),
            press)

\* second loop, audio moving right at the glottis (i = 0)
RightAtGlottis(front, back, area, glottal_source, damp, press) ==
    [back |-> [back EXCEPT ![1].right =
                   FAdd(@, GlottisRight(front[1], glottal_source, damp, press))],
     area |-> area]

\* second loop, audio moving right at i > 0, its reflected part being refl
RightFromLeft(i, front, back, area, refl, damp, nz) ==
    [back |-> [back EXCEPT
                   ![i + 1].right = FAdd(@, FSub(front[i].right, refl)),
                   ![i].left = FAdd(FAdd(@, Prod(refl, OneMinus(damp), Scale)),
                                    Frication(refl, nz))],
     area |-> FAdd(area, Compression(refl, front[i + 1]))]

MovingRight(i, front, back, area, glottal_source, damp, press, nz) ==
    IF i = 0
    THEN RightAtGlottis(front, back, area, glottal_source, damp, press)
    ELSE Only({RightFromLeft(i, front, back, area, refl, damp, nz) :
               refl \in {Prod(front[i].right, reflection(front[i].z, front[i + 1].z),
                              Scale)}})

\* second loop, audio moving left at the lips (i = nsegments - 1)
LeftAtLips(i, front, back, area, refl, damp) ==
    [back |-> [back EXCEPT ![i + 1].left = FAdd(@, Prod(refl, OneMinus(damp), Scale))],
     area |-> FAdd(area, Compression(refl, front[i + 1])),
     drain |-> FSub(front[i + 1].right, refl)]

\* second loop, audio moving left at i < nsegments - 1
LeftFromRight(i, front, back, area, drain, refl, damp, nz) ==
    [back |-> [back EXCEPT
                   ![i + 1].left = FAdd(@, FSub(front[i + 2].left, refl)),
                   ![i + 2].right = FAdd(FAdd(@, Prod(refl, OneMinus(damp), Scale)),
                                         Frication(refl, nz))],
     area |-> FAdd(area, Compression(refl, front[i + 1])),
     drain |-> drain]

MovingLeft(i, n, front, back, area, drain, damp, nz) ==
    IF i = n - 1
    THEN Only({LeftAtLips(i, front, back, area, refl, damp) :
               refl \in {Prod(front[i + 1].right, reflection(front[i + 1].z, DRAIN_Z),
                              Scale)}})
    ELSE Only({LeftFromRight(i, front, back, area, drain, refl, damp, nz) :
               refl \in {Prod(front[i + 2].left,
                              reflection(front[i + 2].z, front[i + 1].z), Scale)}})

\* the floored area stored as the impedance of segment i
StoreArea(i, lt) ==
    [back |-> [lt.back EXCEPT ![i + 1].z = ImpedanceOf(FloorArea(lt.area))],
     drain |-> lt.drain]

\* second loop, body for index i (from 0): st = [back, drain]
ScatterSegment(i, n, front, st, glottal_source, damp, press, nz) ==
    Only({Only({StoreArea(i, lt) :
                lt \in {MovingLeft(i, n, front, rt.back, rt.area, st.drain, damp, nz)}}) :
          rt \in {MovingRight(i, front, st.back, AreaOf(st.back[i + 1].z),
                              glottal_source, damp, press, nz)}})

RECURSIVE ScatterFrom(_, _, _, _, _, _, _, _)
ScatterFrom(i, n, front, st, glottal_source, damp, press, nz) ==
    IF i >= n THEN st
    ELSE Only({ScatterFrom(i + 1, n, front, done, glottal_source, damp, press, nz) :
               done \in {ScatterSegment(i, n, front, st, glottal_source, damp, press, nz)}})

\* both loops: the back array as the swap finds it, and the drain
ScatterPass(front, back, n, glottal_source, damp, press, nz) ==
    Only({ScatterFrom(0, n, front, [back |-> carried, drain |-> 0],
                      glottal_source, damp, press, nz) :
          carried \in {CarryOverPass(front, back, n)}})

\* swap_buffers with its test always taken
swap_buffers_to_second(front, b1, b2) == <<b2, b1>>

\* swap_buffers: the new <<segments_front, segments_back>>
swap_buffers(front, b1, b2) == IF front = b1 THEN <<b2, b1>> ELSE <<b1, b2>>

\* the difference taken the other way round
GlideAway(cur, target, drag) == FAdd(cur, Prod(FSub(cur, target), drag, Scale))

\* one field of the current phoneme moved toward the target
Glide(cur, target, drag) == FAdd(cur, Prod(FSub(target, cur), drag, Scale))

Interpolate(cur, target, drag) ==
    [tongue_position |-> Glide(cur.tongue_position, target.tongue_position, drag),
     tongue_height |-> Glide(cur.tongue_height, target.tongue_height, drag),
     lips_roundedness |-> Glide(cur.lips_roundedness, target.lips_roundedness, drag)]

\* the phoneme object a name refers to
Deref(name, presets, ambient) == IF name = "ambient_phoneme" THEN ambient ELSE presets[name]

\* memory as the swap of run_tract finds it, and the drain
RunTractWrites(h, front, back, n, glottal_source, damp, press, nz) ==
    Only({[heap |-> [h EXCEPT ![back].segs = st.back], drain |-> st.drain] :
          st \in {ScatterPass(h[front].segs, h[back].segs, n, glottal_source,
                              damp, press, nz)}})

\* run_tract(glottal_source): the memory, the buffer roles and the current
\* phoneme it leaves, and the sample it returns
run_tract(h, front, back, b1, b2, n, cur, target, drag, glottal_source, damp, press, nz) ==
    Only({[heap |-> [w.heap EXCEPT ![sw[1]].segs = update_shape(@, n, moved, FALSE)],
           front |-> sw[1], back |-> sw[2], cur |-> moved, drain |-> w.drain] :
          w \in {RunTractWrites(h, front, back, n, glottal_source, damp, press, nz)},
          sw \in {swap_buffers(front, b1, b2)},
          moved \in {Interpolate(cur, target, drag)}})

-----------------------------------------------------------------------------
(* main: the state in which the callback is first invoked *)

StartPhoneme == Phoneme(0, Scale \div 2, 0)

EmptyHeap == [a \in Addr |-> FreeBlock]

\* the state in which the callback is invoked, the sample rate being one of
\* rates, the ambient phoneme amb and the interpolation drag drag
InitOver(rates, amb, drag) ==
    /\ rate \in rates
    /\ unit_length = UnitLength(rate)
    /\ nsegments = SegmentCount(TRACT_LENGTH, rate)
    /\ tract_length = ActualLength(TRACT_LENGTH, rate)
    /\ desired_length = TRACT_LENGTH
    /\ \E m \in {InitTractMem(EmptyHeap, SegmentCount(TRACT_LENGTH, rate), StartPhoneme)} :
          /\ heap = m.heap
          /\ buffer1 = m.buffer1
          /\ buffer2 = m.buffer2
          /\ segments_front = m.buffer1
          /\ segments_back = m.buffer2
    /\ failedAllocs = 0
    /\ PHONEMES = InitialPresets
    /\ ambient_phoneme = amb
    /\ current_phoneme = StartPhoneme
    /\ target_phoneme = "ambient_phoneme"
    /\ interpolation_drag = drag
    /\ diaphram_pressure = 0
    /\ damping = DEFAULT_DAMPING
    /\ pc = "idle"
    /\ events = <<>>
    /\ evIdx = 0
    /\ inBuf = <<>>
    /\ outBuf = <<>>
    /\ frameIdx = 0
    /\ stepLog = <<>>
    /\ blockAmbient = amb
    /\ usedEvents = 0
    /\ usedFrames = 0

InitWith(amb, drag) == InitOver(Rates, amb, drag)

Init == InitWith(StartPhoneme, DEFAULT_INTERPOLATION_DRAG)

-----------------------------------------------------------------------------
(* process: the events a block can carry *)

Event(status, d1, d2) == [status |-> status, d1 |-> d1, d2 |-> d2]
EventType(ev) == ev.status - (ev.status % 16)
EventChan(ev) == ev.status % 16

PlainControllers ==
    {CONTROLLER_TONGUE_POSITION, CONTROLLER_TONGUE_HEIGHT, CONTROLLER_LIPS_ROUNDEDNESS,
     CONTROLLER_DRAG, CONTROLLER_PRESSURE, CONTROLLER_DAMPING}

\* a note off of the phoneme channel and a note on of another channel
IgnoredEvents == {Event(NOTE_OFF + PHONEME_CHANNEL, 38, 0), Event(NOTE_ON, 38, 100)}

EventsOver(levels, lengthLevels) ==
    {Event(CONTROL_CHANGE, id, v) : id \in PlainControllers, v \in levels}
    \cup {Event(CONTROL_CHANGE, CONTROLLER_TRACT_LENGTH, v) : v \in lengthLevels}
    \cup {Event(NOTE_ON + PHONEME_CHANNEL, note, 100) : note \in Notes}
    \cup IgnoredEvents

EventSet == EventsOver(Levels, LengthLevels)

SeqsUpTo(S, k) == UNION {[1..m -> S] : m \in 0..k}

\* the event loop leaving after its first event
EventLoopStopsEarly == evIdx < Len(events) /\ evIdx < 1

\* the event loop of process: i < event_count
EventLoopRuns == evIdx < Len(events)

\* the sample loop leaving one sample early
FrameLoopStopsEarly == frameIdx + 1 < Len(inBuf)

\* the sample loop of process: i < nframes
FrameLoopRuns == frameIdx < Len(inBuf)

\* process is entered with the block's events and input samples, the run
\* delivering at most maxEvents events and maxFrames samples
ProcessBeginOver(evset, maxEvents, maxFrames) ==
    /\ pc = "idle"
    /\ \E evs \in SeqsUpTo(evset, maxEvents - usedEvents) :
       \E ins \in SeqsUpTo(Sources, maxFrames - usedFrames) :
          /\ events' = evs
          /\ inBuf' = ins
          /\ outBuf' = [k \in 1..Len(ins) |-> Unwritten]
          /\ usedEvents' = usedEvents + Len(evs)
          /\ usedFrames' = usedFrames + Len(ins)
    /\ pc' = "events"
    /\ evIdx' = 0
    /\ frameIdx' = 0
    /\ stepLog' = <<>>
    /\ blockAmbient' = ambient_phoneme
    /\ UNCHANGED <<tractVars, phonemeVars, paramVars>>

ProcessBeginWith(evset) == ProcessBeginOver(evset, MaxEvents, MaxFrames)

ProcessBegin == ProcessBeginWith(EventSet)

\* the events taken last first
CurrentEventFromEnd == events[Len(events) - evIdx]

\* jack_midi_event_get(&in_event, port_buf, i)
CurrentEvent == events[evIdx + 1]

AtEvent == pc = "events" /\ EventLoopRuns

IsControl(ev, id) == EventType(ev) = CONTROL_CHANGE /\ ev.d1 = id

NextEvent ==
    /\ evIdx' = evIdx + 1
    /\ UNCHANGED <<pc, events, inBuf, outBuf, frameIdx, stepLog, blockAmbient,
                   usedEvents, usedFrames>>

\* CONTROLLER_TRACT_LENGTH: resize_tract(desired_length)
ApplyTractLength ==
    /\ AtEvent
    /\ IsControl(CurrentEvent, CONTROLLER_TRACT_LENGTH)
    /\ \E desired \in {map2range(CurrentEvent.d2, CONTROLLER_TRACT_LENGTH_MIN,
                                 CONTROLLER_TRACT_LENGTH_MAX)} :
       \E m \in {ResizeMem(heap, buffer1, buffer2, nsegments,
                           SegmentCount(desired, rate), current_phoneme)} :
          /\ desired_length' = desired
          /\ unit_length' = UnitLength(rate)
          /\ nsegments' = SegmentCount(desired, rate)
          /\ tract_length' = ActualLength(desired, rate)
          /\ heap' = m.heap
          /\ buffer1' = m.buffer1
          /\ buffer2' = m.buffer2
          /\ segments_front' = m.buffer1
          /\ segments_back' = m.buffer2
    /\ UNCHANGED <<rate, failedAllocs, phonemeVars, paramVars>>
    /\ NextEvent

ApplyTongueHeight ==
    /\ AtEvent
    /\ IsControl(CurrentEvent, CONTROLLER_TONGUE_HEIGHT)
    /\ ambient_phoneme' = [ambient_phoneme EXCEPT
                              !.tongue_height = map2range(CurrentEvent.d2, 0, 1 * Scale)]
    /\ UNCHANGED <<tractVars, PHONEMES, current_phoneme, target_phoneme, paramVars>>
    /\ NextEvent

ApplyTonguePosition ==
    /\ AtEvent
    /\ IsControl(CurrentEvent, CONTROLLER_TONGUE_POSITION)
    /\ ambient_phoneme' = [ambient_phoneme EXCEPT
                              !.tongue_position = map2range(CurrentEvent.d2, 0, 1 * Scale)]
    /\ UNCHANGED <<tractVars, PHONEMES, current_phoneme, target_phoneme, paramVars>>
    /\ NextEvent

ApplyLipsRoundedness ==
    /\ AtEvent
    /\ IsControl(CurrentEvent, CONTROLLER_LIPS_ROUNDEDNESS)
    /\ ambient_phoneme' = [ambient_phoneme EXCEPT
                              !.lips_roundedness = map2range(CurrentEvent.d2, 0, 1 * Scale)]
    /\ UNCHANGED <<tractVars, PHONEMES, current_phoneme, target_phoneme, paramVars>>
    /\ NextEvent

ApplyDrag ==
    /\ AtEvent
    /\ IsControl(CurrentEvent, CONTROLLER_DRAG)
    /\ interpolation_drag' = map2range(CurrentEvent.d2, DRAG_MIN, DRAG_MAX)
    /\ UNCHANGED <<tractVars, phonemeVars, diaphram_pressure, damping>>
    /\ NextEvent

ApplyPressure ==
    /\ AtEvent
    /\ IsControl(CurrentEvent, CONTROLLER_PRESSURE)
    /\ diaphram_pressure' = map2range(CurrentEvent.d2, MIN_DIAPHRAM_PRESSURE,
                                      MAX_DIAPHRAM_PRESSURE)
    /\ UNCHANGED <<tractVars, phonemeVars, interpolation_drag, damping>>
    /\ NextEvent

ApplyDamping ==
    /\ AtEvent
    /\ IsControl(CurrentEvent, CONTROLLER_DAMPING)
    /\ damping' = map2range(CurrentEvent.d2, MIN_DAMPING, MAX_DAMPING)
    /\ UNCHANGED <<tractVars, phonemeVars, interpolation_drag, diaphram_pressure>>
    /\ NextEvent

IsNoteOn(ev) == EventType(ev) = NOTE_ON /\ EventChan(ev) = PHONEME_CHANNEL
IsNoteOff(ev) == EventType(ev) = NOTE_OFF /\ EventChan(ev) = PHONEME_CHANNEL

\* note on: target_phoneme = get_mapped_phoneme(note)
ApplyNoteOnRetargets ==
    /\ AtEvent
    /\ IsNoteOn(CurrentEvent)
    /\ target_phoneme' = get_mapped_phoneme(CurrentEvent.d1)
    /\ UNCHANGED <<tractVars, PHONEMES, ambient_phoneme, current_phoneme, paramVars>>
    /\ NextEvent

\* note on: ambient_phoneme = *get_mapped_phoneme(note)
ApplyNoteOn ==
    /\ AtEvent
    /\ IsNoteOn(CurrentEvent)
    /\ ambient_phoneme' = Deref(get_mapped_phoneme(CurrentEvent.d1), PHONEMES, ambient_phoneme)
    /\ UNCHANGED <<tractVars, PHONEMES, current_phoneme, target_phoneme, paramVars>>
    /\ NextEvent

\* note off of the phoneme channel: the branch is empty
ApplyNoteOff ==
    /\ AtEvent
    /\ IsNoteOff(CurrentEvent)
    /\ UNCHANGED <<tractVars, phonemeVars, paramVars>>
    /\ NextEvent

\* no branch takes the event
ApplyOther ==
    /\ AtEvent
    /\ ~IsNoteOn(CurrentEvent)
    /\ ~IsNoteOff(CurrentEvent)
    /\ \/ EventType(CurrentEvent) # CONTROL_CHANGE
       \/ CurrentEvent.d1 \notin (PlainControllers \cup {CONTROLLER_TRACT_LENGTH})
    /\ UNCHANGED <<tractVars, phonemeVars, paramVars>>
    /\ NextEvent

\* the event loop ends and the sample loop starts
EventsDone ==
    /\ pc = "events"
    /\ ~EventLoopRuns
    /\ pc' = "frames"
    /\ frameIdx' = 0
    /\ UNCHANGED <<tractVars, phonemeVars, paramVars, events, evIdx, inBuf, outBuf,
                   stepLog, blockAmbient, usedEvents, usedFrames>>

\* out[i] = run_tract(in[i])
RunSample ==
    /\ pc = "frames"
    /\ FrameLoopRuns
    /\ \E nz \in NoiseVals :
       \E r \in {run_tract(heap, segments_front, segments_back, buffer1, buffer2,
                           nsegments, current_phoneme,
                           Deref(target_phoneme, PHONEMES, ambient_phoneme),
                           interpolation_drag, inBuf[frameIdx + 1], damping,
                           diaphram_pressure, nz)} :
          /\ segments_front' = r.front
          /\ segments_back' = r.back
          /\ current_phoneme' = r.cur
          /\ heap' = r.heap
          /\ outBuf' = [outBuf EXCEPT ![frameIdx + 1] = r.drain]
          /\ stepLog' = Append(stepLog, <<inBuf[frameIdx + 1], r.drain>>)
    /\ frameIdx' = frameIdx + 1
    /\ UNCHANGED <<rate, unit_length, tract_length, nsegments, desired_length,
                   failedAllocs, buffer1, buffer2, PHONEMES, ambient_phoneme, target_phoneme,
                   paramVars, pc, events, evIdx, inBuf, blockAmbient,
                   usedEvents, usedFrames>>

\* return 0: the block's buffers go back to the host
ProcessReturn ==
    /\ pc = "frames"
    /\ ~FrameLoopRuns
    /\ pc' = "idle"
    /\ events' = <<>>
    /\ evIdx' = 0
    /\ inBuf' = <<>>
    /\ outBuf' = <<>>
    /\ frameIdx' = 0
    /\ stepLog' = <<>>
    /\ UNCHANGED <<tractVars, phonemeVars, paramVars, blockAmbient, usedEvents, usedFrames>>

ApplyEvent ==
    \/ ApplyTractLength
    \/ ApplyTongueHeight
    \/ ApplyTonguePosition
    \/ ApplyLipsRoundedness
    \/ ApplyDrag
    \/ ApplyPressure
    \/ ApplyDamping
    \/ ApplyNoteOn
    \/ ApplyNoteOff
    \/ ApplyOther

Next ==
    \/ ProcessBegin
    \/ ApplyEvent
    \/ EventsDone
    \/ RunSample
    \/ ProcessReturn

Spec == Init /\ [][Next]_vars

-----------------------------------------------------------------------------
(* The callback fed raw data bytes *)

RawEventSet == EventsOver(RawLevels, RawLevels)

ProcessBeginRaw == ProcessBeginWith(RawEventSet)

NextRaw ==
    \/ ProcessBeginRaw
    \/ ApplyEvent
    \/ EventsDone
    \/ RunSample
    \/ ProcessReturn

SpecRaw == Init /\ [][NextRaw]_vars

-----------------------------------------------------------------------------
(* The callback over a longer run of samples: the only events the host sends
   set the damping to zero or set the tract length *)

\* length levels that give one segment and three segments at 8000 Hz
RunLengthLevels == {0, 64}

RunEventSet ==
    {Event(CONTROL_CHANGE, CONTROLLER_DAMPING, 0)}
    \cup {Event(CONTROL_CHANGE, CONTROLLER_TRACT_LENGTH, v) : v \in RunLengthLevels}

ProcessBeginRun == ProcessBeginOver(RunEventSet, MaxRunEvents, MaxRunFrames)

NextRun ==
    \/ ProcessBeginRun
    \/ ApplyTractLength
    \/ ApplyDamping
    \/ EventsDone
    \/ RunSample
    \/ ProcessReturn

SpecRun == Init /\ [][NextRun]_vars

-----------------------------------------------------------------------------
(* The callback run without end on silent blocks of one sample, after the
   host has selected a preset and set the drag *)

\* the presets selected before the run, and the drag levels set before it
GlideTargets == {"PHONEME_UE"}
GlideDragLevels == {0}

InitGlide ==
    \E name \in GlideTargets, v \in GlideDragLevels :
        InitWith(InitialPresets[name], map2range(v, DRAG_MIN, DRAG_MAX))

\* process is entered with no event and one input sample of zero
ProcessBeginQuiet ==
    /\ pc = "idle"
    /\ events' = <<>>
    /\ inBuf' = <<0>>
    /\ outBuf' = <<Unwritten>>
    /\ pc' = "events"
    /\ evIdx' = 0
    /\ frameIdx' = 0
    /\ stepLog' = <<>>
    /\ blockAmbient' = ambient_phoneme
    /\ UNCHANGED <<tractVars, phonemeVars, paramVars, usedEvents, usedFrames>>

NextGlide ==
    \/ ProcessBeginQuiet
    \/ EventsDone
    \/ RunSample
    \/ ProcessReturn

\* the host goes on calling the callback, and the callback runs to its end
SpecGlide == InitGlide /\ [][NextGlide]_vars /\ WF_vars(NextGlide)

-----------------------------------------------------------------------------
(* The callback when the only events are tract lengths, at a sample rate
   that gives tracts of one and of no segment and at one that gives more *)

MaxResizeEvents == 3
MaxResizeFrames == 3

ResizeRates == {2500, 8000}

ResizeEventSet ==
    {Event(CONTROL_CHANGE, CONTROLLER_TRACT_LENGTH, v) : v \in LengthLevels}

InitResize == InitOver(ResizeRates, StartPhoneme, DEFAULT_INTERPOLATION_DRAG)

ProcessBeginResize == ProcessBeginOver(ResizeEventSet, MaxResizeEvents, MaxResizeFrames)

NextResize ==
    \/ ProcessBeginResize
    \/ ApplyTractLength
    \/ EventsDone
    \/ RunSample
    \/ ProcessReturn

SpecResize == InitResize /\ [][NextResize]_vars

-----------------------------------------------------------------------------
(* resize_tract when malloc returns NULL *)

\* init_tract stores the new counts and the NULL pointers, then writes
\* segments_front[0].z through the NULL pointer: the process is killed there
ApplyTractLengthNoMemory ==
    /\ AtEvent
    /\ IsControl(CurrentEvent, CONTROLLER_TRACT_LENGTH)
    /\ \E desired \in {map2range(CurrentEvent.d2, CONTROLLER_TRACT_LENGTH_MIN,
                                 CONTROLLER_TRACT_LENGTH_MAX)} :
          /\ SegmentCount(desired, rate) > 0
          /\ desired_length' = desired
          /\ unit_length' = UnitLength(rate)
          /\ nsegments' = SegmentCount(desired, rate)
          /\ tract_length' = ActualLength(desired, rate)
    /\ buffer1' = NULL
    /\ buffer2' = NULL
    /\ segments_front' = NULL
    /\ segments_back' = NULL
    /\ failedAllocs' = failedAllocs + 1
    /\ pc' = "crashed"
    /\ UNCHANGED <<rate, heap, phonemeVars, paramVars, events, evIdx, inBuf, outBuf,
                   frameIdx, stepLog, blockAmbient, usedEvents, usedFrames>>

NextAlloc ==
    \/ Next
    \/ ApplyTractLengthNoMemory

SpecAlloc == Init /\ [][NextAlloc]_vars

-----------------------------------------------------------------------------
(* The chains the two buffers hold *)

FrontSegs == heap[segments_front].segs
BackSegs == heap[segments_back].segs

ImpedancePositive(segs) ==
    \A k \in 1..Len(segs) : IsFinite(segs[k].z) /\ segs[k].z > 0

\* C1: before and after every step, every segment of the front buffer and of
\* the back buffer has an impedance that is a finite number greater than zero.
C1_ImpedanceFinitePositive ==
    pc # "crashed" => ImpedancePositive(FrontSegs) /\ ImpedancePositive(BackSegs)

\* a call of resize_tract
Resized == buffer1' # buffer1

SameWaves(new, old, cnt) ==
    \A k \in 1..cnt : new[k].left = old[k].left /\ new[k].right = old[k].right

\* C2: whatever number of steps ran before it, a resize leaves the waves of
\* the segments below min(N, N') of the front buffer as the front buffer held
\* them, and those of the back buffer as the back buffer held them.
C2_ResizeKeepsWavesPerRole ==
    [][(Resized /\ pc' # "crashed") =>
          /\ SameWaves(FrontSegs', FrontSegs, Min(nsegments, nsegments'))
          /\ SameWaves(BackSegs', BackSegs, Min(nsegments, nsegments'))]_vars

\* another content of the back array: every field differs from what a step
\* leaves there
OtherBack(n) == [k \in 1..n |-> Segment(3 * ZScale, PInf, 0, NaN, k * Scale)]

\* what a step returns and leaves in the front buffer, run on the memory h
StepOutcome(h, nz) ==
    {[drain |-> r.drain, front |-> r.heap[r.front].segs] :
        r \in {run_tract(h, segments_front, segments_back, buffer1, buffer2, nsegments,
                         current_phoneme, Deref(target_phoneme, PHONEMES, ambient_phoneme),
                         interpolation_drag, inBuf[frameIdx + 1], damping,
                         diaphram_pressure, nz)}}

\* C3: the sample a step returns and the front buffer it leaves are those it
\* returns and leaves from the same front buffer, parameters, phonemes, input
\* and noise with any other content of the back buffer.
C3_StepReadsFrontOnly ==
    (pc = "frames" /\ FrameLoopRuns) =>
        \A nz \in NoiseVals :
            StepOutcome([heap EXCEPT ![segments_back].segs = OtherBack(nsegments)], nz)
                = StepOutcome(heap, nz)

\* a step is about to run on a front buffer that carries a wave, after a step
\* that left other waves in the back buffer
C3_Witness ==
    /\ pc = "frames" /\ FrameLoopRuns /\ frameIdx >= 1
    /\ \E k \in 1..nsegments : FrontSegs[k].right # 0
    /\ \E k \in 1..nsegments : BackSegs[k].right # FrontSegs[k].right

BuffersPaired ==
    /\ segments_front # segments_back
    /\ {segments_front, segments_back} = {buffer1, buffer2}

\* a call of run_tract
Stepped == frameIdx' = frameIdx + 1

\* C4: front and back are two distinct arrays, the two arrays buffer1 and
\* buffer2; a step exchanges the two roles, and the array that was front when
\* the step started holds after it what it held before.
C4_DoubleBuffer ==
    [][/\ BuffersPaired
       /\ pc' # "crashed" => BuffersPaired'
       /\ Stepped => /\ segments_front' = segments_back
                     /\ segments_back' = segments_front
                     /\ heap'[segments_front] = heap[segments_front]]_vars

\* two steps have run: the roles are back where they started
C4_Witness ==
    pc = "frames" /\ frameIdx = 2 /\ segments_front = buffer1 /\ BuffersPaired

\* C5: a resize whose allocation fails changes neither the segment count, the
\* unit length, the actual length, the buffer pointers nor any segment, and
\* the callback goes on.
C5_FailedResizeKeepsChain ==
    [][failedAllocs' # failedAllocs =>
          /\ UNCHANGED <<nsegments, unit_length, tract_length, buffer1, buffer2,
                         segments_front, segments_back, heap>>
          /\ pc' # "crashed"]_vars

\* C6: every event of a block is applied before the block's first step: no
\* step has run while the event loop is running, and once a step has run
\* every event of the block has been applied.
C6_EventsBeforeSamples ==
    /\ pc = "events" => stepLog = <<>>
    /\ stepLog # <<>> => pc = "frames" /\ evIdx = Len(events)

\* a block of two events and two samples has run both steps
C6_Witness == pc = "frames" /\ Len(events) = 2 /\ Len(stepLog) = 2

\* a note on that selects a preset
Selects(ev) == IsNoteOn(ev) /\ get_mapped_phoneme(ev.d1) # "ambient_phoneme"

\* index of the last event of evs that satisfies P after index lo, or lo
LastAfter(evs, lo, P(_)) ==
    IF \E i \in (lo + 1)..Len(evs) : P(evs[i])
    THEN CHOOSE i \in (lo + 1)..Len(evs) :
             P(evs[i]) /\ \A j \in (i + 1)..Len(evs) : ~P(evs[j])
    ELSE lo

\* the field a preset (or the ambient phoneme the block found) gives, unless
\* a later event of controller id sets it
FieldAfter(evs, sel, id, given) ==
    LET IsSet(ev) == IsControl(ev, id)
        at == LastAfter(evs, sel, IsSet)
    IN IF at = sel THEN given ELSE map2range(evs[at].d2, 0, 1 * Scale)

AmbientAfter(evs, before) ==
    LET sel == LastAfter(evs, 0, Selects)
        base == IF sel = 0 THEN before ELSE PHONEMES[get_mapped_phoneme(evs[sel].d1)]
    IN [tongue_height |-> FieldAfter(evs, sel, CONTROLLER_TONGUE_HEIGHT, base.tongue_height),
        tongue_position |->
            FieldAfter(evs, sel, CONTROLLER_TONGUE_POSITION, base.tongue_position),
        lips_roundedness |->
            FieldAfter(evs, sel, CONTROLLER_LIPS_ROUNDEDNESS, base.lips_roundedness)]

C8_OneStepPerSample ==
    (pc = "frames") =>
        /\ Len(outBuf) = Len(inBuf)
        /\ Len(stepLog) = frameIdx
        /\ ~FrameLoopRuns => Len(stepLog) = Len(inBuf)
        /\ \A i \in 1..Len(stepLog) : stepLog[i][1] = inBuf[i] /\ outBuf[i] = stepLog[i][2]
        /\ \A i \in (Len(stepLog) + 1)..Len(outBuf) : outBuf[i] = Unwritten

\* a block of two samples is done and its two output samples differ
C8_Witness ==
    pc = "frames" /\ ~FrameLoopRuns /\ Len(inBuf) = 2 /\ outBuf[1] # outBuf[2]

Between(x, lo, hi) == IsFinite(x) /\ lo <= x /\ x <= hi

ParametersInRange ==
    /\ Between(desired_length, CONTROLLER_TRACT_LENGTH_MIN, CONTROLLER_TRACT_LENGTH_MAX)
    /\ Between(damping, MIN_DAMPING, MAX_DAMPING)
    /\ Between(diaphram_pressure, MIN_DIAPHRAM_PRESSURE, MAX_DIAPHRAM_PRESSURE)
    /\ Between(interpolation_drag, 1, 1 * Scale)

\* C9: after an event whose data byte is above 127 the parameter it sets is
\* still within its range.
C9_OutOfRangeClamped ==
    /\ ParametersInRange
    /\ Between(ambient_phoneme.tongue_height, 0, 1 * Scale)
    /\ Between(ambient_phoneme.tongue_position, 0, 1 * Scale)
    /\ Between(ambient_phoneme.lips_roundedness, 0, 1 * Scale)

\* the four ranges of the control events, as <<level 0, level 127>>
ControlRanges ==
    {<<CONTROLLER_TRACT_LENGTH_MIN, CONTROLLER_TRACT_LENGTH_MAX>>,
     <<MIN_DAMPING, MAX_DAMPING>>,
     <<MIN_DIAPHRAM_PRESSURE, MAX_DIAPHRAM_PRESSURE>>,
     <<DRAG_MIN, DRAG_MAX>>}

\* map2range(v, lo, hi) is lo + v * (hi - lo) / 127 up to the rounding of a
\* quotient and of a product
LinearAt(v, lo, hi) ==
    Abs(127 * (map2range(v, lo, hi) - lo) - v * (hi - lo))
        <= 127 * (Abs(hi - lo) \div Scale + 1)

MappingIsLinear ==
    \A rg \in ControlRanges :
        /\ map2range(0, rg[1], rg[2]) = rg[1]
        /\ map2range(127, rg[1], rg[2]) = rg[2]
        /\ \A v \in 0..127 : LinearAt(v, rg[1], rg[2])

\* C10: the mapping of a level is linear, level 0 gives one end of the range
\* and level 127 the other; after any events of levels 0..127 the requested
\* length is in [8, 24], the damping in [0, 0.2], the diaphragm pressure in
\* [-0.2, 0.2] and the drag in (0, 1].
C10_LevelsMapIntoRanges == ParametersInRange /\ MappingIsLinear

\* level 127 has been applied to the length and to the damping
C10_Witness ==
    /\ desired_length = CONTROLLER_TRACT_LENGTH_MAX
    /\ damping = MAX_DAMPING
    /\ evIdx = 2

-----------------------------------------------------------------------------
(* Wave energy *)

\* sum over the first k segments of left^2 + right^2
RECURSIVE WaveEnergy(_, _)
WaveEnergy(segs, k) ==
    IF k = 0 THEN 0
    ELSE FAdd(WaveEnergy(segs, k - 1),
              FAdd(Prod(segs[k].left, segs[k].left, Scale),
                   Prod(segs[k].right, segs[k].right, Scale)))

\* a <= b up to the rounding of cnt squares; says nothing of a NaN
NoMoreThan(a, b, cnt) == IsNaN(a) \/ IsNaN(b) \/ a <= b + cnt

\* a step with damping above zero, source zero and pressure zero
QuietStep == Stepped /\ damping > 0 /\ inBuf[frameIdx + 1] = 0 /\ diaphram_pressure = 0

\* C11: a step run with damping above zero, a glottal source of zero and a
\* diaphragm pressure of zero leaves in the front buffer a sum of
\* left^2 + right^2 that is no more than the sum before the step.
C11_EnergyNonIncrease ==
    [][QuietStep => NoMoreThan(WaveEnergy(FrontSegs', nsegments),
                               WaveEnergy(FrontSegs, nsegments), 2 * nsegments)]_vars

\* C12: whatever the damping, a step leaves in segment 0 the rightward wave
\* left(0) + source * (1 - reflection(DRAIN_Z, z(0))) + pressure, where
\* left(0) and z(0) are those of segment 0 of the front buffer before the step.
C12_GlottisReflectsAll ==
    [][Stepped =>
          FrontSegs'[1].right =
              FAdd(FAdd(FrontSegs[1].left,
                        Prod(inBuf[frameIdx + 1],
                             OneMinus(reflection(DRAIN_Z, FrontSegs[1].z)), Scale)),
                   diaphram_pressure)]_vars

\* all segments of the array have the impedance of the first
Uniform(segs) == \A k \in 1..Len(segs) : segs[k].z = segs[1].z

\* the block holds every sample delivered so far (the waves were zero when it
\* started), the first a unit impulse and the others zero; the tract is
\* uniform, the damping and the pressure are zero
ImpulseBlock ==
    /\ pc = "frames"
    /\ usedFrames = Len(inBuf)
    /\ Len(inBuf) >= 1
    /\ inBuf[1] = 1 * Scale
    /\ \A k \in 2..Len(inBuf) : inBuf[k] = 0
    /\ damping = 0
    /\ diaphram_pressure = 0
    /\ Uniform(FrontSegs)

\* the injected amplitude times the transmission factor of the lips
ImpulseThrough(z) ==
    Prod(OneMinus(reflection(DRAIN_Z, z)), OneMinus(reflection(z, DRAIN_Z)), Scale)

\* C13: in a uniform tract of N segments at rest, without damping and
\* pressure, a unit impulse gives output 0 on each of the first N steps, no
\* leftward wave anywhere before step N + 1, and on step N + 1 the non-zero
\* output (1 - reflection(drain, z)) * (1 - reflection(z, drain)), to the
\* last digit.
C13_UniformImpulseResponse ==
    ImpulseBlock =>
        /\ \A i \in 1..Min(Len(stepLog), nsegments) : stepLog[i][2] = 0
        /\ Len(stepLog) <= nsegments => \A k \in 1..nsegments : FrontSegs[k].left = 0
        /\ Len(stepLog) > nsegments =>
              /\ stepLog[nsegments + 1][2] # 0
              /\ Abs(stepLog[nsegments + 1][2] - ImpulseThrough(FrontSegs[1].z)) <= 1

\* the impulse has left a tract of four segments on the fifth step
C13_Witness ==
    ImpulseBlock /\ nsegments = 4 /\ Len(stepLog) = 5 /\ stepLog[5][2] > 0

\* two target impedances that differ by no more than the rounding of the
\* model, which is above the floor MIN_AREA; says nothing of a NaN
CloseTargets(a, b) == IsNaN(a) \/ IsNaN(b) \/ (IsFinite(a) /\ IsFinite(b) /\ Abs(a - b) <= 1)

\* C14: in the front buffer the target impedance of the first segment of the
\* tongue is within the floor of that of the throat segment before it, and the
\* target impedance of the last segment of the tongue is within the floor of
\* that of the lips segment after it.
C14_ShapeContinuousAtZoneEdges ==
    (pc # "crashed" /\ TongueStart(nsegments) < TongueStop(nsegments)) =>
        /\ TongueStart(nsegments) > 0 =>
              CloseTargets(FrontSegs[TongueStart(nsegments) + 1].target_z,
                           FrontSegs[TongueStart(nsegments)].target_z)
        /\ TongueStop(nsegments) < nsegments =>
              CloseTargets(FrontSegs[TongueStop(nsegments)].target_z,
                           FrontSegs[TongueStop(nsegments) + 1].target_z)

\* the phoneme the target pointer refers to
TargetPhoneme == Deref(target_phoneme, PHONEMES, ambient_phoneme)

\* a field moved from c to c2 toward t with drag d: c2 lies between c and t,
\* and its distance to t is (1 - d) times that of c, up to rounding
MovedToward(c, c2, t, d) ==
    /\ (c <= c2 /\ c2 <= t) \/ (t <= c2 /\ c2 <= c)
    /\ Abs(t - c2) <= Abs(t - c)
    /\ Abs(Abs(t - c2) - Prod(Abs(t - c), OneMinus(d), Scale)) <= 1

GlideStepsToward ==
    Stepped =>
        /\ MovedToward(current_phoneme.tongue_position, current_phoneme'.tongue_position,
                       TargetPhoneme.tongue_position, interpolation_drag)
        /\ MovedToward(current_phoneme.tongue_height, current_phoneme'.tongue_height,
                       TargetPhoneme.tongue_height, interpolation_drag)
        /\ MovedToward(current_phoneme.lips_roundedness, current_phoneme'.lips_roundedness,
                       TargetPhoneme.lips_roundedness, interpolation_drag)

\* the tolerance the fixed point of the model resolves: a thousandth
GlideTolerance == Scale \div 1000

GlideClose ==
    /\ Abs(TargetPhoneme.tongue_position - current_phoneme.tongue_position) <= GlideTolerance
    /\ Abs(TargetPhoneme.tongue_height - current_phoneme.tongue_height) <= GlideTolerance
    /\ Abs(TargetPhoneme.lips_roundedness - current_phoneme.lips_roundedness) <= GlideTolerance

BelowOne(x) == IsFinite(x) /\ 0 <= x /\ x < 1 * Scale

\* C16: in every reachable state the lip roundedness of the ambient phoneme
\* and that of the current phoneme are at least 0 and strictly below 1.
C16_LipRoundednessBelowOne ==
    /\ BelowOne(ambient_phoneme.lips_roundedness)
    /\ BelowOne(current_phoneme.lips_roundedness)

\* positive impedances: those the program's constants give, a grid from 0.1
\* to 10, and powers of ten up to the ratio the model's resolution separates
\* from 1
Impedances ==
    {DRAIN_Z, NEUTRAL_Z, THROAT_Z, NEUTRAL_Z - 1, NEUTRAL_Z + 1}
    \cup {k * (ZScale \div 10) : k \in 1..100}
    \cup {100 * ZScale, 1000 * ZScale, 10000 * ZScale}

ReflectionInside(z1, z2) ==
    \E r \in {reflection(z1, z2)} :
        /\ IsFinite(r)
        /\ -(1 * Scale) < r
        /\ r < 1 * Scale
        /\ r = FNeg(reflection(z2, z1))

ReflectionInsideOnGrid == \A z1, z2 \in Impedances : ReflectionInside(z1, z2)

PositiveZ(z) == IsFinite(z) /\ z > 0

\* the junctions of the front buffer: neighbours, and the drain at both ends
ReflectionInsideAtJunctions ==
    /\ \A k \in 1..(nsegments - 1) :
          (PositiveZ(FrontSegs[k].z) /\ PositiveZ(FrontSegs[k + 1].z)) =>
              ReflectionInside(FrontSegs[k].z, FrontSegs[k + 1].z)
    /\ \A k \in {1, nsegments} :
          PositiveZ(FrontSegs[k].z) => ReflectionInside(FrontSegs[k].z, DRAIN_Z)

\* C17: for positive impedances z1 and z2 the reflection coefficient
\* (z2 - z1) / (z2 + z1) is strictly between -1 and 1, and
\* reflection(z1, z2) = -reflection(z2, z1); on a grid of impedances and at
\* every junction of every reachable tract.
C17_ReflectionInsideAntisymmetric ==
    /\ ReflectionInsideOnGrid
    /\ pc # "crashed" => ReflectionInsideAtJunctions

\* a step has reflected a wave at a junction where the impedance changes
C17_Witness ==
    /\ pc = "frames"
    /\ \E k \in 1..(nsegments - 1) :
          /\ PositiveZ(FrontSegs[k].z) /\ PositiveZ(FrontSegs[k + 1].z)
          /\ FrontSegs[k].z # FrontSegs[k + 1].z
          /\ FrontSegs[k].left # 0
          /\ IsFinite(FrontSegs[k].left)

\* desired - unit < actual <= desired, the count being the floor of the
\* quotient and the actual length the count times the unit
LengthDerived(desired, r, n, unit, actual) ==
    /\ unit = UnitLength(r)
    /\ n = SegmentCount(desired, r)
    /\ n * unit <= desired
    /\ desired < (n + 1) * unit
    /\ actual = n * unit
    /\ desired - unit < actual
    /\ actual <= desired

\* sample rates of common audio hosts
GridRates == {8000, 22050, 44100, 48000, 96000}

LengthDerivedOnGrid ==
    /\ \A r \in GridRates : \A v \in 0..127 :
          \E d \in {map2range(v, CONTROLLER_TRACT_LENGTH_MIN, CONTROLLER_TRACT_LENGTH_MAX)} :
              LengthDerived(d, r, SegmentCount(d, r), UnitLength(r), ActualLength(d, r))
    /\ SegmentCount(TRACT_LENGTH, 44100) = 22

\* C18: after initialize and after every resize the segment count is the
\* floor of desired length / unit length, the unit length is speed of sound /
\* sample rate, the actual length is count * unit length, and
\* desired - unit < actual <= desired; 17.5 cm at 44100 Hz gives 22 segments.
C18_SegmentCountIsFloor ==
    /\ LengthDerivedOnGrid
    /\ pc # "crashed" =>
          /\ LengthDerived(desired_length, rate, nsegments, unit_length, tract_length)
          /\ Len(FrontSegs) = nsegments
          /\ Len(BackSegs) = nsegments

\* a resize to 24 cm has given five segments of 4.2875 cm
C18_Witness ==
    /\ desired_length = CONTROLLER_TRACT_LENGTH_MAX
    /\ nsegments = 5
    /\ tract_length < desired_length
    /\ pc = "events"

\* the normalised position of tongue index i is a number in [0, 1]
UnitPosDefined(i, n) == \E u \in {UnitPos(i, n)} : IsFinite(u) /\ 0 <= u /\ u <= 1 * Scale

\* throat [0, start), tongue [start, stop), lips [stop, n)
ZonesPartition(n) ==
    /\ 0 <= TongueStart(n)
    /\ TongueStart(n) <= TongueStop(n)
    /\ TongueStop(n) <= n

\* C19: for the segment count of every reachable tract the three zones
\* partition the indices, the normalised position of every tongue index is
\* defined (no division by zero) and lies in [0, 1], and every target
\* impedance of the front buffer is finite and positive.
C19_ShapeWellDefined ==
    pc # "crashed" =>
        /\ ZonesPartition(nsegments)
        /\ \A i \in TongueStart(nsegments)..(TongueStop(nsegments) - 1) :
              UnitPosDefined(i, nsegments)
        /\ \A k \in 1..nsegments : PositiveZ(FrontSegs[k].target_z)

\* the event loop applies an event that sets a field of the ambient phoneme
\* or selects a phoneme
ArticulationEvent ==
    /\ pc = "events"
    /\ EventLoopRuns
    /\ evIdx' = evIdx + 1
    /\ \/ IsControl(CurrentEvent, CONTROLLER_TONGUE_HEIGHT)
       \/ IsControl(CurrentEvent, CONTROLLER_TONGUE_POSITION)
       \/ IsControl(CurrentEvent, CONTROLLER_LIPS_ROUNDEDNESS)
       \/ IsNoteOn(CurrentEvent)

\* C20: an event that sets the ambient tongue height, tongue position or lip
\* roundedness or selects a phoneme leaves the current phoneme, the presets,
\* the target reference (the ambient phoneme) and both segment buffers as they
\* were; a selection that maps to no preset leaves the ambient phoneme as it
\* was; and the current phoneme changes in a step only.
C20_ArticulationSetsAmbientOnly ==
    [][/\ ArticulationEvent =>
             /\ UNCHANGED <<current_phoneme, PHONEMES, target_phoneme, heap, nsegments,
                            buffer1, buffer2, segments_front, segments_back>>
             /\ target_phoneme' = "ambient_phoneme"
       /\ (ArticulationEvent /\ IsNoteOn(CurrentEvent) /\ ~Selects(CurrentEvent)) =>
             ambient_phoneme' = ambient_phoneme
       /\ current_phoneme' # current_phoneme => Stepped
       /\ PHONEMES' = PHONEMES]_vars

\* a selection has replaced the ambient phoneme by a preset, the current
\* phoneme being another
C20_Witness ==
    /\ pc = "events"
    /\ evIdx >= 1
    /\ Selects(events[evIdx])
    /\ ambient_phoneme = PHONEMES["PHONEME_U"]
    /\ current_phoneme # ambient_phoneme

\* the array after is the array before but for the target impedances, the
\* rigidity of the lips zone and, when snapped, the impedances
ShapedOnly(after, before, n, snapped) ==
    /\ Len(after) = Len(before)
    /\ \A k \in 1..n :
          /\ after[k].left = before[k].left
          /\ after[k].right = before[k].right
          /\ ~snapped => after[k].z = before[k].z
          /\ k - 1 < TongueStop(n) => after[k].rigidity = before[k].rigidity

\* phonemes the shape is computed for
ShapePhonemes == {current_phoneme, InitialPresets["PHONEME_UE"]}

\* update_shape applied to the front array, with and without set_z (between
\* two blocks: every tract a block leaves is there)
ShapeKeepsWaves ==
    \A p \in ShapePhonemes : \A snapped \in BOOLEAN :
        ShapedOnly(update_shape(FrontSegs, nsegments, p, snapped), FrontSegs,
                   nsegments, snapped)

\* the step leaves what its two loops wrote, but for what update_shape(0)
\* writes in the new front array
StepShapesFrontOnly ==
    \E nz \in NoiseVals :
    \E w \in {RunTractWrites(heap, segments_front, segments_back, nsegments,
                             inBuf[frameIdx + 1], damping, diaphram_pressure, nz)} :
        /\ ShapedOnly(FrontSegs', w.heap[segments_back].segs, nsegments, FALSE)
        /\ BackSegs' = w.heap[segments_front].segs

\* C21: update_shape changes no left and no right wave of either buffer;
\* run without set_z, as the step runs it after the swap, it changes no
\* impedance either: it writes the target impedances, and the rigidity of the
\* lips zone, of the front buffer only.
C21_ShapeWritesTargetsOnly ==
    [][/\ pc = "idle" => ShapeKeepsWaves
       /\ Stepped => StepShapesFrontOnly]_vars

\* a step has left a front segment whose target impedance has moved away
\* from its impedance
C21_Witness ==
    /\ pc = "frames"
    /\ frameIdx >= 1
    /\ \E k \in 1..nsegments :
          /\ PositiveZ(FrontSegs[k].z)
          /\ PositiveZ(FrontSegs[k].target_z)
          /\ FrontSegs[k].target_z # FrontSegs[k].z

\* two numbers that compare equal: no NaN compares equal to anything
SameNumber(a, b) == ~IsNaN(a) /\ ~IsNaN(b) /\ a = b

AllRigid(segs) == \A k \in 1..Len(segs) : segs[k].rigidity = 1 * Scale

\* the wall-compliance terms the step adds to the area of segment k (from
\* 1): those of the wave reflected at its left junction and of the wave
\* reflected at the lips
ComplianceIsZero(front, n) ==
    /\ \A k \in 2..n :
          SameNumber(Compression(Prod(front[k - 1].right,
                                      reflection(front[k - 1].z, front[k].z), Scale),
                                 front[k]), 0)
    /\ n >= 1 =>
          SameNumber(Compression(Prod(front[n].right, reflection(front[n].z, DRAIN_Z),
                                      Scale),
                                 front[n]), 0)

ImpedanceFollowsTarget ==
    \A k \in 1..nsegments : SameNumber(FrontSegs'[k].z, FrontSegs[k].target_z)

\* C22: every segment of both buffers has rigidity 1 in every reachable
\* state, so the wall-compliance term of every step is 0, and after a step
\* the impedance of every segment of the new front buffer is the target
\* impedance that segment had in the front buffer when the step started.
C22_RigidAndImpedanceLagsTarget ==
    [][/\ pc' # "crashed" => AllRigid(FrontSegs') /\ AllRigid(BackSegs')
       /\ Stepped => ComplianceIsZero(FrontSegs, nsegments) /\ ImpedanceFollowsTarget]_vars

\* the same for the tracts that have no tongue zone of one segment
LagsTargetUnlessTwoSegments ==
    [][/\ pc' # "crashed" => AllRigid(FrontSegs') /\ AllRigid(BackSegs')
       /\ (Stepped /\ nsegments # 2) =>
             ComplianceIsZero(FrontSegs, nsegments) /\ ImpedanceFollowsTarget]_vars


-----------------------------------------------------------------------------
\* the arrays that are allocated and not released
LiveArrays == {a \in Addr : heap[a].live}

\* front and back are the two live arrays, of nsegments segments each
TwoLiveArrays ==
    /\ segments_front \in LiveArrays
    /\ segments_back \in LiveArrays
    /\ segments_front # segments_back
    /\ LiveArrays = {segments_front, segments_back}
    /\ LiveArrays = {buffer1, buffer2}
    /\ Len(FrontSegs) = nsegments
    /\ Len(BackSegs) = nsegments

\* a resize releases the two arrays it found, each once and after the copy,
\* and leaves two other arrays
ReleasesOldArrays ==
    /\ buffer1 # buffer2
    /\ {buffer1, buffer2} \subseteq LiveArrays
    /\ {buffer1', buffer2'} \cap {buffer1, buffer2} = {}
    /\ ~heap'[buffer1].live
    /\ ~heap'[buffer2].live
    /\ CopyIndices(nsegments, nsegments') \subseteq LoopIndices(nsegments)
    /\ CopyIndices(nsegments, nsegments') \subseteq LoopIndices(nsegments')
    /\ LoopIndices(nsegments') \subseteq 0..(Len(FrontSegs') - 1)

\* a step addresses the segments of the two arrays it found, which stay
StepStaysInside ==
    /\ StepIndices(nsegments) \subseteq LoopIndices(nsegments)
    /\ LoopIndices(nsegments) \subseteq 0..(Len(FrontSegs) - 1)
    /\ LoopIndices(nsegments) \subseteq 0..(Len(BackSegs) - 1)
    /\ segments_front' = segments_back
    /\ segments_back' = segments_front
    /\ UNCHANGED <<buffer1, buffer2, nsegments>>

\* C23: after any interleaving of resizes and steps, front and back are two
\* different live arrays of exactly nsegments segments and no other array is
\* live; a resize releases exactly the two arrays it replaces, once each; and
\* every index a step, the shape function or the resize copy addresses is
\* in 0..nsegments-1 of its array, for nsegments 0 and 1 as for the others
C23_TwoLiveArraysIndicesInside ==
    [][/\ TwoLiveArrays'
       /\ Resized => ReleasesOldArrays
       /\ Stepped => StepStaysInside]_vars

\* a tract of no segment, reached by a resize from a tract of one segment, has run a step
C23_Witness ==
    /\ pc = "frames"
    /\ frameIdx >= 1
    /\ nsegments = 0
    /\ buffer1 \notin {1, 2}
    /\ TwoLiveArrays

=============================================================================
